---- MODULE Spec2Model ----
(***************************************************************************)
(* Model of the SolarPredictive annual-energy estimator                    *)
(* (basic_predictor.calculate_total_energy) and of the axis-tilt optimizer *)
(* (optimizer.optimize_axistilt).                                          *)
(*                                                                         *)
(* Units.  Dates are day indexes of the year 2021 (0 = 2021-01-01,         *)
(* 364 = 2021-12-31).  Instants are minutes since 2021-01-01 00:00.        *)
(* Albedo values are hundredths (20 = 0.2).  Heights are counted in        *)
(* thousandths of the site unit and snow depths in millimetres, so that    *)
(* the source's row_height - snow / 1000 subtracts like units.  Heights    *)
(* and energies are exact rationals <<numerator, denominator>> in lowest   *)
(* terms; the reveal heights and N coordinates of a pvtune export are      *)
(* whole thousandths and whole units.                                      *)
(***************************************************************************)
EXTENDS Integers, Sequences, FiniteSets, TLC

VARIABLES
    entry,              \* which entry point was called: "estimator" | "optimizer"
    ext_or_int,         \* estimator parameter
    opt_tilt,           \* estimator parameter
    height,             \* estimator parameter: nominal reveal height
    tz,                 \* site timezone
    albedo_files,       \* the yearly albedo tables found in albedodata_filepath
    snow_src,           \* monthly mean snow depth (mm) the weather source yields
    pvtune,             \* tracker rows read from pvtune_filepath
    physics,            \* which external power model is plugged in
    pc,                 \* position in the running function
    n_pvrows,
    albedo_data,
    adjusted_heights_df,
    summary_df,
    weighted_avg_reveal_height,
    axis_tilt,          \* the running trial's suggested tilt
    total_energy_bi,
    start_date,
    count,
    visited,            \* start dates handed to the day-level simulation in this evaluation
    n_sim,              \* day-level simulations started in this evaluation
    last_call,          \* arguments of this evaluation's latest pvfactors_timeseries call
    trial_axis_tilts,
    trial_energies,
    total_energy,       \* objective's local: the value calculate_total_energy returned
    study,              \* the optuna study: its seed, its trials and the best one
    result,             \* value returned to the caller
    error               \* exception surfaced to the caller

vars == << entry, ext_or_int, opt_tilt, height, tz, albedo_files, snow_src, pvtune,
           physics, pc, n_pvrows, albedo_data, adjusted_heights_df, summary_df,
           weighted_avg_reveal_height, axis_tilt, total_energy_bi, start_date, count,
           visited, n_sim, last_call, trial_axis_tilts, trial_energies, total_energy,
           study,
           result, error >>

inputs == << entry, ext_or_int, opt_tilt, height, tz, albedo_files, snow_src, pvtune,
             physics >>

\* what a variable holds before the program assigns it: a string, a number, a
\* height, a sequence or table, a pvfactors call, a study
None == "None"
Unset == 0 - 1
NoHeight == << Unset, 1 >>
Empty == << >>
NoCall == [ times |-> << >>, albedo_values |-> << >>, pvrow_height |-> NoHeight,
            n_pvrows |-> Unset, index_observed_pvrow |-> Unset ]
NoStudy == [ seed |-> Unset, trials |-> << >>, best |-> 0 ]

(***************************************************************************)
(* Exact rational arithmetic standing for the source's float arithmetic.   *)
(***************************************************************************)
RECURSIVE GCD(_, _)
GCD(a, b) == IF b = 0 THEN a ELSE GCD(b, a % b)

Abs(x) == IF x < 0 THEN -x ELSE x

\* the element of a one-element set; binding x \in { e } evaluates e once
Only(S) == CHOOSE r \in S : TRUE

Lcm(a, b) == (a \div GCD(a, b)) * b

\* the fraction n / d in lowest terms
Rat(n, d) ==
    Only({ << x \div GCD(Abs(x), y), y \div GCD(Abs(x), y) >> : x \in { n }, y \in { d } })

RatAdd(a, b) ==
    Only({ Rat(x[1] * (Lcm(x[2], y[2]) \div x[2]) + y[1] * (Lcm(x[2], y[2]) \div y[2]),
               Lcm(x[2], y[2])) : x \in { a }, y \in { b } })

RatMul(a, b) ==
    Only({ Rat(Rat(x[1], y[2])[1] * Rat(y[1], x[2])[1],
               Rat(x[1], y[2])[2] * Rat(y[1], x[2])[2]) : x \in { a }, y \in { b } })

RatLess(a, b) ==
    Only({ x[1] * (Lcm(x[2], y[2]) \div x[2]) < y[1] * (Lcm(x[2], y[2]) \div y[2])
             : x \in { a }, y \in { b } })

(***************************************************************************)
(* The calendar of 2021 and the timestamps of one sampled day.             *)
(***************************************************************************)
DaysInMonth == << 31, 28, 31, 30, 31, 30, 31, 31, 30, 31, 30, 31 >>

RECURSIVE MonthFrom(_, _)
MonthFrom(d, m) ==
    IF m > 12 THEN MonthFrom(d, 1)
    ELSE IF d < DaysInMonth[m] THEN m ELSE MonthFrom(d - DaysInMonth[m], m + 1)

\* the month of every day index the program meets, tabulated once
MonthTable == [ d \in 0..400 |-> MonthFrom(d, 1) ]

\* Timestamp.month of the date with day index d
MonthOfDay(d) == MonthTable[d]

RECURSIVE DayFrom(_, _)
DayFrom(d, m) ==
    IF m > 12 THEN DayFrom(d, 1)
    ELSE IF d < DaysInMonth[m] THEN d + 1 ELSE DayFrom(d - DaysInMonth[m], m + 1)

\* Timestamp.day of the date with day index d
DayOfMonth(d) == DayFrom(d, 1)

MinutesPerDay == 24 * 60

\* a plausible slip: the start date advanced by 11 days
StepDaysEleven == 10 + 1

\* pd.Timestamp('2021-01-01'), pd.Timestamp('2021-12-31'), pd.Timedelta(days=10)
StartDate == 0
EndDate == 364
StepDays == 10

\* freq='20min'
FreqMinutes == 20

\* US/Mountain in 2021: daylight time from 2021-03-14 09:00 UTC to 2021-11-07 08:00 UTC
DstStartUtc == 72 * MinutesPerDay + 540
DstEndUtc == 310 * MinutesPerDay + 480

\* offset of local time from UTC, in minutes, at UTC instant u
UtcOffset(zone, u) ==
    IF zone = "US/Mountain"
    THEN IF DstStartUtc <= u /\ u < DstEndUtc THEN -360 ELSE -420
    ELSE 0

\* tz_localize of the naive midnight of day d: the UTC instant of that wall-clock time
Localize(zone, d) ==
    CHOOSE u \in { d * MinutesPerDay + 360, d * MinutesPerDay + 420, d * MinutesPerDay } :
        u + UtcOffset(zone, u) = d * MinutesPerDay

\* pd.date_range(start, start + 1 day, freq='20min', tz=tz): both end points are
\* localized and every 20-minute instant from the first to the last, both included,
\* is produced; the result is the sequence of local wall-clock minutes.
DateRange(start, zone) ==
    LET u0 == Localize(zone, start)
        u1 == Localize(zone, start + 1)
        n  == (u1 - u0) \div FreqMinutes + 1
    IN  [ i \in 1..n |->
            LET u == u0 + FreqMinutes * (i - 1) IN u + UtcOffset(zone, u) ]

\* the timestamps of every possible start date in every zone, tabulated once
DateRangeTable ==
    [ zone \in { "UTC", "US/Mountain" } |->
        [ d \in 0..364 |-> DateRange(d, zone) ] ]

\* Timestamp.month of a local wall-clock minute
MonthOfTime(t) == MonthOfDay(t \div MinutesPerDay)

(***************************************************************************)
(* The monthly profiles.                                                   *)
(***************************************************************************)
RECURSIVE SumOver(_, _)
\* sum of f[x] over the finite set S
SumOver(f, S) ==
    IF S = {} THEN 0
    ELSE LET x == CHOOSE y \in S : TRUE IN f[x] + SumOver(f, S \ {x})

\* monthly_albedo.calculate_monthly_avg_albedo: each file gives one mean per
\* (Year, Month); the result has one row per month that occurs in any file, the
\* mean of that month's yearly means.
calculate_monthly_avg_albedo(files) ==
    LET months == UNION { DOMAIN files[i] : i \in DOMAIN files }
        having(m) == { i \in DOMAIN files : m \in DOMAIN files[i] }
    IN  [ m \in months |->
            SumOver([ i \in having(m) |-> files[i][m] ], having(m))
                \div Cardinality(having(m)) ]

\* monthly_snow.calculate_new_row_height: one row per month the weather source has,
\* adjusted_row_height = row_height - mean snow depth / 1000
calculate_new_row_height(snow, row_height) ==
    [ m \in DOMAIN snow |-> RatAdd(row_height, Rat(0 - snow[m], 1)) ]

\* return 0.2: the default albedo, in hundredths
DefaultAlbedo == 20

\* a plausible slip: a missing month read as albedo 0
get_albedo_zero(data, t) ==
    LET month == MonthOfTime(t)
    IN  IF month \in DOMAIN data THEN data[month] ELSE 0

get_albedo(data, t) ==
    LET month == MonthOfTime(t)
    IN  IF month \in DOMAIN data THEN data[month] ELSE DefaultAlbedo

get_adjusted_row_height(df, nominal, date) ==
    LET month == MonthOfDay(date)
    IN  IF month \in DOMAIN df THEN df[month] ELSE nominal

\* times.to_series().apply(get_albedo)
AlbedoValues(data, times) == [ i \in DOMAIN times |-> get_albedo(data, times[i]) ]

(***************************************************************************)
(* The external physics chain (solar position, clear sky, tracker          *)
(* orientation, pvfactors, ModelChain) as a deterministic stub: the AC     *)
(* power of one sample.  "const" is the constant-1 stub; "geometry" is a   *)
(* downward parabola in the tilt peaking at 25 degrees, raised by albedo,  *)
(* row count and row height (whole site units).                            *)
(***************************************************************************)
AcPower(model, tilt, albedo, pvrow_height, rows) ==
    IF model = "const" THEN 1
    ELSE 30 - ((tilt - 25) * (tilt - 25)) \div 50
            + (albedo \div 10) * (rows - 1)
            + pvrow_height[1] \div (pvrow_height[2] * 1000)

RECURSIVE AcPowerRange(_, _, _, _, _)
\* the AC power of the samples lo..hi of a day, summed by halves
AcPowerRange(model, tilt, call, lo, hi) ==
    IF lo > hi THEN 0
    ELSE IF lo = hi
    THEN AcPower(model, tilt, call.albedo_values[lo], call.pvrow_height,
                 call.n_pvrows)
    ELSE AcPowerRange(model, tilt, call, lo, (lo + hi) \div 2)
           + AcPowerRange(model, tilt, call, (lo + hi) \div 2 + 1, hi)

\* ac_power.sum() of the day simulated with these pvfactors arguments
AcPowerSum(model, tilt, call) ==
    Only({ AcPowerRange(model, tilt, c, 1, Len(c.albedo_values)) : c \in { call } })

\* the watts-to-kWh divisor of energy_kwh = ac_power.sum() / 3000
WattsToKwh == 3000

\* the 365 of total_energy_bi * (365 / count)
DaysPerYear == 365

\* the arguments pvfactors_timeseries receives for the day starting at date
IrradianceCall(data, df, nominal, rows, zone, date) ==
    LET times == DateRangeTable[zone][date]
    IN  [ times |-> times,
          albedo_values |-> AlbedoValues(data, times),
          pvrow_height  |-> get_adjusted_row_height(df, nominal, date),
          n_pvrows      |-> rows,
          index_observed_pvrow |-> 1 ]

\* energy_kwh = ac_power.sum() / 3000
EnergyKwh(model, tilt, call) == Rat(AcPowerSum(model, tilt, call), WattsToKwh)

\* a plausible slip: the divisor one more than the days simulated
AnnualEstimateOffByOne(total, n) == RatMul(total, Rat(DaysPerYear, n + 1))

\* return total_energy_bi * (365 / count)
AnnualEstimate(total, n) == RatMul(total, Rat(DaysPerYear, n))

(***************************************************************************)
(* Inputs.                                                                 *)
(***************************************************************************)
Year2019 == [ m \in {2, 3, 6, 7, 12} |-> 10 + 2 * m ]
Year2020 == [ m \in {2, 6, 7, 11} |-> 30 + 2 * m ]
ConstantAlbedo == [ m \in 1..12 |-> 20 ]

ConstantFolder == << ConstantAlbedo >>
TwoYearFolder == << Year2019, Year2020 >>

NoSnow == [ m \in 1..12 |-> 0 ]
WinterSnow == [ m \in {1, 2, 11, 12} |-> 100 + 10 * m ]

AlbedoFolders == { ConstantFolder, TwoYearFolder }
SnowSources == { NoSnow, WinterSnow }

\* The lines of a pvtune export, of which the model reads the columns Tracker Row
\* Id (row), Description, N and Reveal Height (thousandths).  One tracker row is
\* a pile line followed by its array-end lines: cls is the row's class, reveal
\* the Reveal Height of the pile line and of the array-end lines, ends the N of
\* the array-end lines in file order.
RowLines(id, t) ==
    << [ row |-> id,
         Description |-> IF t.cls = "Ext" THEN "Ext_Pile" ELSE "Int_Pile",
         N |-> 0, Reveal_Height |-> t.reveal[1] ] >>
    \o [ k \in 1..Len(t.ends) |->
           [ row |-> id,
             Description |-> IF t.cls = "Ext" THEN "Ext_Array_END"
                                              ELSE "Int_Array_END",
             N |-> t.ends[k], Reveal_Height |-> t.reveal[2] ] ]

RECURSIVE LayoutFrom(_, _)
\* the export whose tracker rows id, id + 1, ... are the rows ts[id], ts[id + 1], ...
LayoutFrom(ts, id) ==
    IF id > Len(ts) THEN << >>
    ELSE RowLines(id, ts[id]) \o LayoutFrom(ts, id + 1)

Layout(ts) == LayoutFrom(ts, 1)

\* a site of three tracker rows: 78 modules, 104 modules, and a span of exactly 270
SurveyA ==
    Layout(<< [ cls |-> "Ext", reveal |-> << 1000, 1100 >>, ends |-> << 1000, 1260 >> ],
              [ cls |-> "Int", reveal |-> << 1300, 1250 >>, ends |-> << 500, 110 >> ],
              [ cls |-> "Int", reveal |-> << 3000, 2900 >>, ends |-> << 0, 270 >> ] >>)

\* exports without a pair of array-end lines in any tracker row
SurveyNoEnds ==
    Layout(<< [ cls |-> "Int", reveal |-> << 1000, 1100 >>, ends |-> << >> ],
              [ cls |-> "Ext", reveal |-> << 1300, 1250 >>, ends |-> << 260 >> ] >>)

\* an export whose spans all fall outside the recognised ranges
SurveyOffRange ==
    Layout(<< [ cls |-> "Int", reveal |-> << 1000, 1100 >>, ends |-> << 0, 300 >> ],
              [ cls |-> "Int", reveal |-> << 1300, 1250 >>, ends |-> << 270, 0 >> ] >>)

Layouts == { SurveyA, SurveyNoEnds, SurveyOffRange }

\* the tracker rows the exports handed to process_pvtune_output alone are made of
MaxRows == 2
EndPatterns ==
    { << >>, << 0 >>, << 0, 250 >>, << 0, 260 >>, << 270, 0 >>, << 0, 380 >>,
      << 390, 0 >>, << 0, 400 >>, << 0, 260, 999 >> }
RowKinds ==
    { [ cls |-> c, reveal |-> r, ends |-> e ] :
          c \in { "Ext", "Int" }, r \in { << 1000, 1100 >>, << 1300, 1250 >> },
          e \in EndPatterns }
GeneratedLayouts ==
    { Layout(ts) : ts \in UNION { [ 1..n -> RowKinds ] : n \in 1..MaxRows } }

Zones == { "UTC", "US/Mountain" }
PowerModels == { "const", "geometry" }
ArrayClasses == { "Ext", "Int", "External" }
EstimatorTilts == { 0, 30 }
NominalHeights == { << 1500, 1 >> }

Init ==
    /\ entry \in { "estimator", "optimizer" }
    /\ tz \in Zones
    /\ albedo_files \in AlbedoFolders
    /\ snow_src \in SnowSources
    /\ physics \in PowerModels
    /\ IF entry = "estimator"
       THEN /\ ext_or_int \in ArrayClasses
            /\ opt_tilt \in EstimatorTilts
            /\ height \in NominalHeights
            /\ pvtune = Empty
       ELSE /\ ext_or_int = None
            /\ opt_tilt = Unset
            /\ height = NoHeight
            /\ pvtune \in Layouts
    /\ pc = "start"
    /\ n_pvrows = Unset
    /\ albedo_data = Empty
    /\ adjusted_heights_df = Empty
    /\ summary_df = Empty
    /\ weighted_avg_reveal_height = NoHeight
    /\ axis_tilt = Unset
    /\ total_energy_bi = Empty
    /\ start_date = Unset
    /\ count = Unset
    /\ visited = << >>
    /\ n_sim = 0
    /\ last_call = NoCall
    /\ trial_axis_tilts = Empty
    /\ trial_energies = Empty
    /\ total_energy = Empty
    /\ study = NoStudy
    /\ result = Empty
    /\ error = None

(***************************************************************************)
(* basic_predictor.calculate_total_energy                                  *)
(***************************************************************************)
\* a plausible slip: the two row counts exchanged and any other class let through
ArrayRowsSwapped(cls) == IF cls = "Ext" THEN 3 ELSE 2

\* lines 43-48: the row count of the array class; Unset where ValueError is raised
ArrayRows(cls) ==
    IF cls = "Ext" THEN 2 ELSE IF cls = "Int" THEN 3 ELSE Unset

\* lines 42-48: n_pvrows is set, or the ValueError leaves the function
EstRows ==
    /\ entry = "estimator" /\ pc = "start"
    /\ IF ArrayRows(ext_or_int) = Unset
       THEN n_pvrows' = n_pvrows /\ pc' = "raised" /\ error' = "ValueError"
       ELSE n_pvrows' = ArrayRows(ext_or_int) /\ pc' = "est_albedo" /\ error' = error
    /\ UNCHANGED << inputs, summary_df,
                    albedo_data, adjusted_heights_df,
                    weighted_avg_reveal_height, axis_tilt, total_energy_bi,
                    start_date, count, visited, n_sim, last_call, trial_axis_tilts,
                    trial_energies, total_energy, study, result >>

\* line 51
EstLoadAlbedo ==
    /\ entry = "estimator" /\ pc = "est_albedo"
    /\ albedo_data' = calculate_monthly_avg_albedo(albedo_files)
    /\ pc' = "est_heights"
    /\ UNCHANGED << inputs, summary_df,
                    n_pvrows, adjusted_heights_df,
                    weighted_avg_reveal_height, axis_tilt, total_energy_bi,
                    start_date, count, visited, n_sim, last_call, trial_axis_tilts,
                    trial_energies, total_energy, study, result, error >>

\* lines 63-80: the snow-adjusted heights and the loop's initial values
EstHeights ==
    /\ entry = "estimator" /\ pc = "est_heights"
    /\ adjusted_heights_df' = calculate_new_row_height(snow_src, height)
    /\ total_energy_bi' = Rat(0, 1)
    /\ start_date' = StartDate
    /\ count' = 0
    /\ pc' = "est_loop"
    /\ UNCHANGED << inputs, summary_df,
                    n_pvrows, albedo_data, weighted_avg_reveal_height,
                    axis_tilt, visited, n_sim, last_call, trial_axis_tilts,
                    trial_energies, total_energy, study, result, error >>

\* lines 83-137: one pass of the loop body, the day's simulation succeeding
EstDay ==
    /\ entry = "estimator" /\ pc = "est_loop"
    /\ start_date <= EndDate
    /\ last_call' = IrradianceCall(albedo_data, adjusted_heights_df, height, n_pvrows,
                                   tz, start_date)
    /\ total_energy_bi' =
           RatAdd(total_energy_bi, EnergyKwh(physics, opt_tilt, last_call'))
    /\ visited' = Append(visited, start_date)
    /\ n_sim' = n_sim + 1
    /\ start_date' = start_date + StepDays
    /\ count' = count + 1
    /\ UNCHANGED << inputs, summary_df,
                    pc, n_pvrows, albedo_data, adjusted_heights_df,
                    weighted_avg_reveal_height, axis_tilt, trial_axis_tilts,
                    trial_energies, total_energy, study, result, error >>

\* a plausible slip: the failing day caught and skipped, the loop going on
EstDayFailsSkipped ==
    /\ entry = "estimator" /\ pc = "est_loop"
    /\ start_date <= EndDate
    /\ last_call' = IrradianceCall(albedo_data, adjusted_heights_df, height, n_pvrows,
                                   tz, start_date)
    /\ visited' = Append(visited, start_date)
    /\ n_sim' = n_sim + 1
    /\ start_date' = start_date + StepDays
    /\ UNCHANGED << inputs, summary_df,
                    pc, n_pvrows, albedo_data, adjusted_heights_df,
                    weighted_avg_reveal_height, axis_tilt, total_energy_bi, count,
                    trial_axis_tilts, trial_energies, total_energy, study, result,
                    error >>

\* lines 83-130: the external physics raises during the day's simulation; nothing
\* catches it, so it leaves calculate_total_energy.  It raises either before
\* pvfactors_timeseries is called (lines 87-98: solar position, clear sky, tracker
\* orientation), the call of lines 101-114 then not being made, or in that call or
\* after it (lines 101-130)
EstDayFails ==
    /\ entry = "estimator" /\ pc = "est_loop"
    /\ start_date <= EndDate
    /\ \E called \in BOOLEAN :
           last_call' = IF called
                        THEN IrradianceCall(albedo_data, adjusted_heights_df, height,
                                            n_pvrows, tz, start_date)
                        ELSE last_call
    /\ visited' = Append(visited, start_date)
    /\ n_sim' = n_sim + 1
    /\ pc' = "raised"
    /\ error' = "PhysicsError"
    /\ UNCHANGED << inputs, summary_df,
                    n_pvrows, albedo_data, adjusted_heights_df,
                    weighted_avg_reveal_height, axis_tilt, total_energy_bi,
                    start_date, count, trial_axis_tilts, trial_energies,
                    total_energy, study, result >>

\* lines 83, 140: the loop condition fails and the scaled total is returned
EstReturn ==
    /\ entry = "estimator" /\ pc = "est_loop"
    /\ ~ (start_date <= EndDate)
    /\ result' = AnnualEstimate(total_energy_bi, count)
    /\ pc' = "done"
    /\ UNCHANGED << inputs, summary_df,
                    n_pvrows, albedo_data, adjusted_heights_df,
                    weighted_avg_reveal_height, axis_tilt, total_energy_bi,
                    start_date, count, visited, n_sim, last_call, trial_axis_tilts,
                    trial_energies, total_energy, study, error >>

(***************************************************************************)
(* pvtune.process_pvtune_output                                            *)
(***************************************************************************)
\* line 26: the lines whose Description is Ext_Array_END or Int_Array_END
array_end_df(df) ==
    LET IsEnd(l) == l.Description \in { "Ext_Array_END", "Int_Array_END" }
    IN  SelectSeq(df, IsEnd)

TrackerRowIds(df) == { df[i].row : i \in DOMAIN df }

\* line 29: abs(x.iloc[0] - x.iloc[1]) of a tracker row's array-end lines when
\* there are more than one, None otherwise; line 32: a row with no array-end line
\* maps to NaN.  Unset stands for both.
abs_diff_n(df, id) ==
    LET OfRow(l) == l.row = id
        x == SelectSeq(array_end_df(df), OfRow)
    IN  IF Len(x) > 1 THEN Abs(x[1].N - x[2].N) ELSE Unset

\* a plausible slip: the bounds of the two spans taken inclusive
NumberOfModulesInclusive(x) ==
    IF x = Unset THEN Unset
    ELSE IF 250 <= x /\ x <= 270 THEN 78
    ELSE IF 380 <= x /\ x <= 400 THEN 104
    ELSE Unset

\* lines 35-37: 78 if 250 < x < 270 else (104 if 380 < x < 400 else None); every
\* comparison with a missing span is false
NumberOfModules(x) ==
    IF x = Unset THEN Unset
    ELSE IF 250 < x /\ x < 270 THEN 78
    ELSE IF 380 < x /\ x < 400 THEN 104
    ELSE Unset

RECURSIVE MaxOver(_, _)
\* the largest f[x] over the non-empty finite set S
MaxOver(f, S) ==
    LET x == CHOOSE y \in S : TRUE
    IN  IF S = { x } THEN f[x]
        ELSE LET m == MaxOver(f, S \ { x }) IN IF f[x] > m THEN f[x] ELSE m

\* line 45: the largest Reveal Height among the lines of a tracker row
max_reveal_height(df, id) ==
    LET of == { i \in DOMAIN df : df[i].row = id }
    IN  MaxOver([ i \in of |-> df[i].Reveal_Height ], of)

\* line 48: 0.75 + ceil(max_reveal_height * 4) / 4, in thousandths
RoundedRevealHeight(h) == 750 + ((h + 249) \div 250) * 250

\* lines 62-68: one line per tracker row
new_df(df) ==
    [ id \in TrackerRowIds(df) |->
        [ Max_Reveal_Height |-> RoundedRevealHeight(max_reveal_height(df, id)),
          Number_of_Modules |-> NumberOfModules(abs_diff_n(df, id)),
          Description |->
              IF \E i \in DOMAIN df :
                     /\ df[i].row = id
                     /\ df[i].Description \in { "Ext_Array_END", "Ext_Pile" }
              THEN "Ext" ELSE "Int" ] ]

\* line 77: summary_df['Weighted Height'] = Max Reveal Height * Number_of_Total_Modules
with_weighted_height(table) ==
    [ k \in DOMAIN table |->
        [ Max_Reveal_Height |-> table[k].Max_Reveal_Height,
          Description |-> table[k].Description,
          Number_of_Rows |-> table[k].Number_of_Rows,
          Number_of_Total_Modules |-> table[k].Number_of_Total_Modules,
          Weighted_Height |->
              table[k].Max_Reveal_Height * table[k].Number_of_Total_Modules ] ]

\* lines 71-77: the tracker rows grouped by (Max Reveal Height, Description); the
\* sum of a group's module counts skips the missing ones
summary_table(df) ==
    LET rows == new_df(df)
        keys == { << rows[id].Max_Reveal_Height, rows[id].Description >> :
                      id \in DOMAIN rows }
        of(k) == { id \in DOMAIN rows :
                      << rows[id].Max_Reveal_Height, rows[id].Description >> = k }
        counted(k) == { id \in of(k) : rows[id].Number_of_Modules # Unset }
        modules(k) == SumOver([ id \in counted(k) |-> rows[id].Number_of_Modules ],
                              counted(k))
    IN  with_weighted_height(
            [ k \in keys |->
                [ Max_Reveal_Height |-> k[1],
                  Description |-> k[2],
                  Number_of_Rows |-> Cardinality(of(k)),
                  Number_of_Total_Modules |-> modules(k) ] ])

\* line 80
total_modules(summary) ==
    SumOver([ k \in DOMAIN summary |-> summary[k].Number_of_Total_Modules ],
            DOMAIN summary)

\* line 81: summary_df['Weighted Height'].sum() / total_modules, total_modules
\* not being zero
weighted_average(summary) ==
    Rat(SumOver([ k \in DOMAIN summary |-> summary[k].Weighted_Height ],
                DOMAIN summary),
        total_modules(summary))

\* The exception that leaves process_pvtune_output, None when it returns.
\* Lines 29-37: when array-end lines exist and no tracker row has more than one,
\* every value of abs_diff_n is None, the Series keeps the object dtype and
\* 250 < None raises TypeError.  Line 81: when no tracker row has a module count
\* the Number of Modules column holds None only and keeps the object dtype, both
\* sums are Python numbers and the division raises ZeroDivisionError.
pvtune_error(df) ==
    IF /\ array_end_df(df) # << >>
       /\ \A id \in TrackerRowIds(df) : abs_diff_n(df, id) = Unset
    THEN "TypeError"
    ELSE IF total_modules(summary_table(df)) = 0 THEN "ZeroDivisionError"
    ELSE None

pvtune_raises(df) == pvtune_error(df) # None

\* line 84: return summary_df, weighted_average_reveal_height
process_pvtune_output(df) ==
    Only({ << summary, weighted_average(summary) >> :
               summary \in { summary_table(df) } })

(***************************************************************************)
(* optimizer.optimize_axistilt                                             *)
(***************************************************************************)
\* a plausible slip: the study stopped one trial early
NTrialsEarly == 20 - 1

\* study.optimize(objective, n_trials=20)
NTrials == 20

\* suggest_float('axis_tilt', 0, 60)
TiltLow == 0
TiltHigh == 60

MaxSeed == 2

\* the seeds the sampler's generator may start from
Seeds == { 25 * s : s \in 0..MaxSeed }

\* the k-th number the study's seeded sampler draws
SamplerDraw(seed, k) == seed + 10 * k

\* a plausible slip: the draw offset by low but not folded into the interval
SuggestFloatUnfolded(low, high, r) == low + r

\* trial.suggest_float(name, low, high): the sampler's draw, mapped into [low, high]
SuggestFloat(low, high, r) == low + (r % (high - low + 1))

\* a plausible slip: a trial that only equals the best value replaces the best one
UpdateBestLatest(trials, best, n) ==
    IF best = 0 THEN n
    ELSE IF RatLess(trials[n].value, trials[best].value) THEN best ELSE n

\* the study keeps the first trial that reached the best value: a finished trial
\* replaces the best one only when its value is strictly greater
UpdateBest(trials, best, n) ==
    IF best = 0 THEN n
    ELSE IF RatLess(trials[best].value, trials[n].value) THEN n ELSE best

\* line 52
OptLoadAlbedo ==
    /\ entry = "optimizer" /\ pc = "start"
    /\ albedo_data' = calculate_monthly_avg_albedo(albedo_files)
    /\ pc' = "opt_layout"
    /\ UNCHANGED << inputs, summary_df,
                    n_pvrows, adjusted_heights_df,
                    weighted_avg_reveal_height, axis_tilt, total_energy_bi,
                    start_date, count, visited, n_sim, last_call, trial_axis_tilts,
                    trial_energies, total_energy, study, result, error >>

\* a plausible slip: a layout without modules handed on with the default height 0
OptLayoutDefaultsToZero ==
    /\ entry = "optimizer" /\ pc = "opt_layout"
    /\ IF pvtune_raises(pvtune)
       THEN /\ summary_df' = summary_table(pvtune)
            /\ weighted_avg_reveal_height' = Rat(0, 1)
       ELSE /\ summary_df' = process_pvtune_output(pvtune)[1]
            /\ weighted_avg_reveal_height' = process_pvtune_output(pvtune)[2]
    /\ pc' = "opt_study"
    /\ UNCHANGED << inputs, n_pvrows, albedo_data, adjusted_heights_df, axis_tilt,
                    total_energy_bi, start_date, count, visited, n_sim, last_call,
                    trial_axis_tilts, trial_energies, total_energy, study, result,
                    error >>

\* lines 64-67: the layout summary and its weighted average, or the error of
\* process_pvtune_output, which nothing catches, leaving optimize_axistilt
OptLayout ==
    /\ entry = "optimizer" /\ pc = "opt_layout"
    /\ IF pvtune_raises(pvtune)
       THEN /\ pc' = "raised" /\ error' = pvtune_error(pvtune)
            /\ UNCHANGED << summary_df, weighted_avg_reveal_height >>
       ELSE /\ summary_df' = process_pvtune_output(pvtune)[1]
            /\ weighted_avg_reveal_height' = process_pvtune_output(pvtune)[2]
            /\ pc' = "opt_study" /\ error' = error
    /\ UNCHANGED << inputs, n_pvrows, albedo_data, adjusted_heights_df, axis_tilt,
                    total_energy_bi, start_date, count, visited, n_sim, last_call,
                    trial_axis_tilts, trial_energies, total_energy, study, result >>

\* lines 151-152, 168: the empty trial lists and a new study with a fresh seed
OptCreateStudy ==
    /\ entry = "optimizer" /\ pc = "opt_study"
    /\ trial_axis_tilts' = << >>
    /\ trial_energies' = << >>
    /\ \E seed \in Seeds :
           study' = [ seed |-> seed, trials |-> << >>, best |-> 0 ]
    /\ pc' = "propose"
    /\ UNCHANGED << inputs, summary_df,
                    n_pvrows, albedo_data, adjusted_heights_df,
                    weighted_avg_reveal_height, axis_tilt, total_energy_bi,
                    start_date, count, visited, n_sim, last_call, total_energy,
                    result, error >>

\* lines 169, 155-157: the study starts its next trial and objective asks it for a tilt
Propose ==
    /\ entry = "optimizer" /\ pc = "propose"
    /\ LET t == SuggestFloat(TiltLow, TiltHigh,
                             SamplerDraw(study.seed, Len(study.trials)))
       IN  /\ axis_tilt' = t
           /\ study' = [ study EXCEPT !.trials =
                           Append(@, [ state |-> "RUNNING", axis_tilt |-> t,
                                       value |-> Empty ]) ]
    /\ pc' = "evaluate"
    /\ UNCHANGED << inputs, summary_df,
                    n_pvrows, albedo_data, adjusted_heights_df,
                    weighted_avg_reveal_height, total_energy_bi, start_date, count,
                    visited, n_sim, last_call, trial_axis_tilts, trial_energies,
                    total_energy, result, error >>

\* lines 159, 70-86: calculate_total_energy(axis_tilt) is entered
OptHeights ==
    /\ entry = "optimizer" /\ pc = "evaluate"
    /\ adjusted_heights_df' =
           calculate_new_row_height(snow_src, weighted_avg_reveal_height)
    /\ total_energy_bi' = Rat(0, 1)
    /\ start_date' = StartDate
    /\ count' = 0
    /\ visited' = << >>
    /\ n_sim' = 0
    /\ last_call' = NoCall
    /\ pc' = "opt_loop"
    /\ UNCHANGED << inputs, summary_df,
                    n_pvrows, albedo_data, weighted_avg_reveal_height,
                    axis_tilt, trial_axis_tilts, trial_energies,
                    total_energy, study, result, error >>

\* a plausible slip: the objective simulating an external row, 2 rows for 3
OptDayTwoRows ==
    /\ entry = "optimizer" /\ pc = "opt_loop"
    /\ start_date <= EndDate
    /\ last_call' = IrradianceCall(albedo_data, adjusted_heights_df,
                                   weighted_avg_reveal_height, 2, tz, start_date)
    /\ total_energy_bi' =
           RatAdd(total_energy_bi, EnergyKwh(physics, axis_tilt, last_call'))
    /\ visited' = Append(visited, start_date)
    /\ n_sim' = n_sim + 1
    /\ start_date' = start_date + StepDays
    /\ count' = count + 1
    /\ UNCHANGED << inputs, summary_df,
                    pc, n_pvrows, albedo_data, adjusted_heights_df,
                    weighted_avg_reveal_height, axis_tilt, trial_axis_tilts,
                    trial_energies, total_energy, study, result, error >>

\* lines 89-145: one pass of the loop body, the day's simulation succeeding
OptDay ==
    /\ entry = "optimizer" /\ pc = "opt_loop"
    /\ start_date <= EndDate
    /\ last_call' = IrradianceCall(albedo_data, adjusted_heights_df,
                                   weighted_avg_reveal_height, 3, tz, start_date)
    /\ total_energy_bi' =
           RatAdd(total_energy_bi, EnergyKwh(physics, axis_tilt, last_call'))
    /\ visited' = Append(visited, start_date)
    /\ n_sim' = n_sim + 1
    /\ start_date' = start_date + StepDays
    /\ count' = count + 1
    /\ UNCHANGED << inputs, summary_df,
                    pc, n_pvrows, albedo_data, adjusted_heights_df,
                    weighted_avg_reveal_height, axis_tilt, trial_axis_tilts,
                    trial_energies, total_energy, study, result, error >>

\* a plausible slip: the failure caught in objective and the trial recorded with
\* energy 0
OptDayFailsAsZero ==
    /\ entry = "optimizer" /\ pc = "opt_loop"
    /\ start_date <= EndDate
    /\ last_call' = IrradianceCall(albedo_data, adjusted_heights_df,
                                   weighted_avg_reveal_height, 3, tz, start_date)
    /\ visited' = Append(visited, start_date)
    /\ n_sim' = n_sim + 1
    /\ total_energy' = Rat(0, 1)
    /\ pc' = "record"
    /\ UNCHANGED << inputs, summary_df,
                    n_pvrows, albedo_data, adjusted_heights_df,
                    weighted_avg_reveal_height, axis_tilt, total_energy_bi,
                    start_date, count, trial_axis_tilts, trial_energies, study,
                    result, error >>

\* lines 89-137: the external physics raises during the day's simulation, either
\* before pvfactors_timeseries is called (lines 94-105), the call of lines
\* 108-121 then not being made, or in that call or after it (lines 108-137); it
\* leaves objective, the study marks the running trial failed and raises it again
\* (study.optimize is called without catch), so it leaves optimize_axistilt
OptDayFails ==
    /\ entry = "optimizer" /\ pc = "opt_loop"
    /\ start_date <= EndDate
    /\ \E called \in BOOLEAN :
           last_call' = IF called
                        THEN IrradianceCall(albedo_data, adjusted_heights_df,
                                            weighted_avg_reveal_height, 3, tz,
                                            start_date)
                        ELSE last_call
    /\ visited' = Append(visited, start_date)
    /\ n_sim' = n_sim + 1
    /\ study' = [ study EXCEPT !.trials[Len(study.trials)].state = "FAIL" ]
    /\ pc' = "raised"
    /\ error' = "PhysicsError"
    /\ UNCHANGED << inputs, summary_df,
                    n_pvrows, albedo_data, adjusted_heights_df,
                    weighted_avg_reveal_height, axis_tilt, total_energy_bi,
                    start_date, count, trial_axis_tilts, trial_energies,
                    total_energy, result >>

\* lines 89, 148, 159: the loop condition fails and the scaled total is returned
OptReturn ==
    /\ entry = "optimizer" /\ pc = "opt_loop"
    /\ ~ (start_date <= EndDate)
    /\ total_energy' = AnnualEstimate(total_energy_bi, count)
    /\ pc' = "record"
    /\ UNCHANGED << inputs, summary_df,
                    n_pvrows, albedo_data, adjusted_heights_df,
                    weighted_avg_reveal_height, axis_tilt, total_energy_bi,
                    start_date, count, visited, n_sim, last_call, trial_axis_tilts,
                    trial_energies, study, result, error >>

\* lines 162-165, 169: the trial is appended to both lists and its value handed to
\* the study, which completes the trial and starts another unless 20 are finished
Record ==
    /\ entry = "optimizer" /\ pc = "record"
    /\ trial_axis_tilts' = Append(trial_axis_tilts, axis_tilt)
    /\ trial_energies' = Append(trial_energies, total_energy)
    /\ LET n == Len(study.trials)
           done == [ study.trials EXCEPT ![n].state = "COMPLETE",
                                         ![n].value = total_energy ]
       IN  study' = [ study EXCEPT !.trials = done,
                                   !.best = UpdateBest(done, study.best, n) ]
    /\ pc' = IF Len(study.trials) < NTrials THEN "propose" ELSE "report"
    /\ UNCHANGED << inputs, summary_df,
                    n_pvrows, albedo_data, adjusted_heights_df,
                    weighted_avg_reveal_height, axis_tilt, total_energy_bi,
                    start_date, count, visited, n_sim, last_call, total_energy,
                    result, error >>

\* lines 171-188: the plot, then optimal_axistilt and maximized_total_energy from
\* study.best_params and study.best_value are returned with summary_df
Report ==
    /\ entry = "optimizer" /\ pc = "report"
    /\ result' = << study.trials[study.best].axis_tilt,
                    study.trials[study.best].value, summary_df >>
    /\ pc' = "done"
    /\ UNCHANGED << inputs, summary_df,
                    n_pvrows, albedo_data, adjusted_heights_df,
                    weighted_avg_reveal_height, axis_tilt, total_energy_bi,
                    start_date, count, visited, n_sim, last_call, trial_axis_tilts,
                    trial_energies, total_energy, study, error >>

Next ==
    \/ EstRows
    \/ EstLoadAlbedo
    \/ EstHeights
    \/ EstDay
    \/ EstDayFails
    \/ EstReturn
    \/ OptLoadAlbedo
    \/ OptLayout
    \/ OptCreateStudy
    \/ Propose
    \/ OptHeights
    \/ OptDay
    \/ OptDayFails
    \/ OptReturn
    \/ Record
    \/ Report

Spec == Init /\ [][Next]_vars

\* optimize_axistilt alone, called for a site in UTC with constant albedo and no snow
InitOptimizer ==
    /\ Init
    /\ entry = "optimizer"
    /\ tz = "UTC" /\ albedo_files = ConstantFolder /\ snow_src = NoSnow

NextOptimizer ==
    \/ OptLoadAlbedo
    \/ OptLayout
    \/ OptCreateStudy
    \/ Propose
    \/ OptHeights
    \/ OptDay
    \/ OptDayFails
    \/ OptReturn
    \/ Record
    \/ Report

\* the interpreter runs the called function on: a step that can be taken is taken
FairOptimizer == InitOptimizer /\ [][NextOptimizer]_vars /\ WF_vars(NextOptimizer)

\* process_pvtune_output called on its own, for an export of one or more tracker rows
InitLayout ==
    /\ entry = "layout"
    /\ pvtune \in GeneratedLayouts
    /\ ext_or_int = None /\ opt_tilt = Unset /\ height = NoHeight
    /\ tz = None /\ albedo_files = Empty /\ snow_src = Empty /\ physics = None
    /\ pc = "start"
    /\ n_pvrows = Unset
    /\ albedo_data = Empty
    /\ adjusted_heights_df = Empty
    /\ summary_df = Empty
    /\ weighted_avg_reveal_height = NoHeight
    /\ axis_tilt = Unset
    /\ total_energy_bi = Empty
    /\ start_date = Unset
    /\ count = Unset
    /\ visited = << >>
    /\ n_sim = 0
    /\ last_call = NoCall
    /\ trial_axis_tilts = Empty
    /\ trial_energies = Empty
    /\ total_energy = Empty
    /\ study = NoStudy
    /\ result = Empty
    /\ error = None

\* pvtune.py lines 23-84: the summary table and the weighted average are returned,
\* or the exception of line 35 or line 81 leaves the function
PvtuneCall ==
    /\ entry = "layout" /\ pc = "start"
    /\ IF pvtune_raises(pvtune)
       THEN pc' = "raised" /\ error' = pvtune_error(pvtune) /\ result' = result
       ELSE pc' = "done" /\ error' = error /\ result' = process_pvtune_output(pvtune)
    /\ UNCHANGED << inputs, summary_df, n_pvrows, albedo_data, adjusted_heights_df,
                    weighted_avg_reveal_height, axis_tilt, total_energy_bi,
                    start_date, count, visited, n_sim, last_call, trial_axis_tilts,
                    trial_energies, total_energy, study >>

NextLayout == PvtuneCall

LayoutSpec == InitLayout /\ [][NextLayout]_vars

(***************************************************************************)
(* Properties.                                                             *)
(***************************************************************************)
\* the nominal height, the tilt and the row count of the running evaluation
Nominal == IF entry = "estimator" THEN height ELSE weighted_avg_reveal_height
Tilt == IF entry = "estimator" THEN opt_tilt ELSE axis_tilt

\* an evaluation of calculate_total_energy has just returned its value
Returned ==
    \/ entry = "estimator" /\ pc = "done"
    \/ entry = "optimizer" /\ pc = "record"

Returned_value == IF entry = "estimator" THEN result ELSE total_energy

\* C1 (cadence): in the estimator and in the optimizer's objective alike, the k-th
\* start date handed to the day-level simulation is 10 * (k - 1) days after
\* 2021-01-01 and is never after 2021-12-31; when the evaluation returns, exactly
\* 37 dates were visited, the first Jan 1, the second Jan 11, the last Dec 27, and
\* the day-level simulation ran exactly 37 times.
C1_Cadence ==
    /\ \A k \in DOMAIN visited :
           /\ visited[k] = 10 * (k - 1)
           /\ visited[k] <= 364
    /\ Len(visited) <= 37
    /\ n_sim <= 37
    /\ Returned =>
           /\ Len(visited) = 37
           /\ n_sim = 37
           /\ count = 37
           /\ MonthOfDay(visited[1]) = 1 /\ DayOfMonth(visited[1]) = 1
           /\ MonthOfDay(visited[2]) = 1 /\ DayOfMonth(visited[2]) = 11
           /\ MonthOfDay(visited[37]) = 12 /\ DayOfMonth(visited[37]) = 27

\* C1 witness: the estimator returned after visiting Dec 27 as its 37th date
C1_Witness ==
    /\ entry = "estimator" /\ pc = "done"
    /\ Len(visited) = 37 /\ visited[37] = 360 /\ n_sim = 37

\* C2 (end-to-end day sampling), as claimed: with the constant-1 power stub, a
\* constant albedo profile and no snow adjustment, the annual estimator returns
\* (1 * 72 / 3000) * 365.
C2_SeventyTwoSamples ==
    ( /\ entry = "estimator" /\ pc = "done"
      /\ physics = "const"
      /\ albedo_files = ConstantFolder
      /\ snow_src = NoSnow )
    => result = Rat(72 * 365, 3000)

\* the pvfactors arguments of the day starting at date d, computed from the inputs
DayCall(d) ==
    IrradianceCall(albedo_data, adjusted_heights_df, Nominal,
                   IF entry = "estimator" THEN n_pvrows ELSE 3, tz, d)

\* the energy of the day starting at date d: its summed AC power over 3000
DayEnergy(d) == Rat(AcPowerSum(physics, Tilt, DayCall(d)), 3000)

RECURSIVE VisitedRange(_, _)
\* the summed AC power of the visited days lo..hi, summed by halves
VisitedRange(lo, hi) ==
    IF lo > hi THEN 0
    ELSE IF lo = hi THEN AcPowerSum(physics, Tilt, DayCall(visited[lo]))
    ELSE VisitedRange(lo, (lo + hi) \div 2) + VisitedRange((lo + hi) \div 2 + 1, hi)

\* the summed AC power of all the visited days
VisitedAcPower == VisitedRange(1, Len(visited))

\* the sum of the energies of the visited days
VisitedEnergy == Rat(VisitedAcPower, 3000)

\* C3 (scaling): the value an evaluation returns, multiplied by the number of
\* day-level simulations performed, equals 365 times the sum of the sampled days'
\* energies; that number is the loop's count and is not zero; and when all the
\* sampled days yield the same energy e the value is e * 365.
C3_Scaling ==
    Returned =>
        /\ count = n_sim /\ count = Len(visited) /\ count # 0
        /\ RatMul(Returned_value, Rat(n_sim, 1))
               = RatMul(VisitedEnergy, Rat(365, 1))
        /\ (\A k \in DOMAIN visited : DayEnergy(visited[k]) = DayEnergy(visited[1]))
               => Returned_value = RatMul(DayEnergy(visited[1]), Rat(365, 1))

\* C3 witness: the estimator returned e * 365 after 37 days of the same energy
\* e = 73 / 3000
C3_Witness ==
    /\ entry = "estimator" /\ pc = "done"
    /\ physics = "const" /\ tz = "UTC"
    /\ count = 37
    /\ result = Rat(73 * 365, 3000)

\* C4 (array-class mapping): every pvfactors call of the estimator has 2 rows for
\* class Ext and 3 rows for class Int, every pvfactors call of the optimizer's
\* trial evaluations has 3 rows (the optimizer takes no array class and models the
\* internal row), and with any other class the estimator raises ValueError with
\* no profile loaded and no day simulated.
C4_ArrayClass ==
    /\ (entry = "estimator" /\ last_call # NoCall) =>
           /\ ext_or_int \in { "Ext", "Int" }
           /\ ext_or_int = "Ext" => last_call.n_pvrows = 2
           /\ ext_or_int = "Int" => last_call.n_pvrows = 3
    /\ (entry = "optimizer" /\ last_call # NoCall) => last_call.n_pvrows = 3
    /\ (entry = "estimator" /\ ext_or_int \notin { "Ext", "Int" }) =>
           /\ pc \in { "start", "raised" }
           /\ pc = "raised" => error = "ValueError"
           /\ albedo_data = Empty /\ adjusted_heights_df = Empty
           /\ n_sim = 0 /\ last_call = NoCall /\ result = Empty

\* C4 witness: the estimator, called for an external row, made a pvfactors call
\* with 2 rows
C4_Witness ==
    /\ entry = "estimator" /\ ext_or_int = "Ext"
    /\ last_call # NoCall /\ last_call.n_pvrows = 2

\* C5 (fallback): in every pvfactors call, made for the start date visited
\* last (or the one before, when the last day failed before its call), the
\* albedo of each timestamp is 0.2
\* when the timestamp's month has no entry in the albedo profile and the profile's
\* value for that month otherwise; the row height is the nominal reveal height
\* when the start date's month has no entry in the row-height profile and the
\* profile's value otherwise; and no error other than an invalid array class, a
\* layout without modules or a physics failure is ever raised.
C5_Fallback ==
    /\ last_call # NoCall =>
           LET times == last_call.times
               d == times[1] \div (24 * 60)
           IN  /\ Len(last_call.albedo_values) = Len(times)
               /\ \/ d = visited[Len(visited)]
                  \/ /\ pc = "raised" /\ Len(visited) > 1
                     /\ d = visited[Len(visited) - 1]
               /\ \A i \in DOMAIN times :
                      LET month == MonthOfDay(times[i] \div (24 * 60))
                      IN  /\ month \notin DOMAIN albedo_data
                              => last_call.albedo_values[i] = 20
                          /\ month \in DOMAIN albedo_data
                              => last_call.albedo_values[i] = albedo_data[month]
               /\ MonthOfDay(d) \notin DOMAIN adjusted_heights_df
                      => last_call.pvrow_height = Nominal
               /\ MonthOfDay(d) \in DOMAIN adjusted_heights_df
                      => last_call.pvrow_height = adjusted_heights_df[MonthOfDay(d)]
    /\ error \in { None, "ValueError", "TypeError", "ZeroDivisionError",
                   "PhysicsError" }

\* C5 witness: the day starting 2021-05-31, May being absent from both profiles
\* and June present in the albedo profile: the samples of May 31 use 0.2, the
\* last sample (June 1, 00:00) uses June's value, the row height is the nominal one
C5_Witness ==
    /\ entry = "estimator" /\ last_call # NoCall
    /\ visited[Len(visited)] = 150
    /\ 5 \notin DOMAIN albedo_data /\ 6 \in DOMAIN albedo_data
    /\ 5 \notin DOMAIN adjusted_heights_df
    /\ last_call.albedo_values[1] = 20
    /\ last_call.albedo_values[Len(last_call.albedo_values)] = albedo_data[6]
    /\ albedo_data[6] # 20
    /\ last_call.pvrow_height = height

\* C6 (optimizer bound): the tilt of the running trial, every tilt in the trial
\* lists and in the study's trials, and the returned optimal tilt lie in [0, 60].
C6_TiltBound ==
    entry = "optimizer" =>
        /\ axis_tilt # Unset => (0 <= axis_tilt /\ axis_tilt <= 60)
        /\ \A i \in DOMAIN trial_axis_tilts :
               0 <= trial_axis_tilts[i] /\ trial_axis_tilts[i] <= 60
        /\ \A i \in DOMAIN study.trials :
               0 <= study.trials[i].axis_tilt /\ study.trials[i].axis_tilt <= 60
        /\ result # Empty => (0 <= result[1] /\ result[1] <= 60)

\* C6 witness: the optimizer returned after trials at both ends of the interval
C6_Witness ==
    /\ entry = "optimizer" /\ pc = "done" /\ result # Empty
    /\ \E i \in DOMAIN trial_axis_tilts : trial_axis_tilts[i] = 0
    /\ \E i \in DOMAIN trial_axis_tilts : trial_axis_tilts[i] = 60

\* C7 (optimizer selection): when the optimizer has returned, the returned energy
\* is the largest of the recorded trial energies and the returned tilt is the
\* tilt of the earliest recorded trial with that energy.
C7_Selection ==
    (entry = "optimizer" /\ pc = "done") =>
        LET n == Len(trial_energies)
            isFirstMax(i) ==
                /\ trial_energies[i] = result[2]
                /\ \A j \in 1..(i - 1) : trial_energies[j] # result[2]
        IN  /\ n > 0 /\ Len(trial_axis_tilts) = n
            /\ \A i \in 1..n : ~ RatLess(result[2], trial_energies[i])
            /\ \E i \in 1..n : isFirstMax(i) /\ result[1] = trial_axis_tilts[i]

\* C7 witness: two recorded trials with different tilts share the largest energy
\* and the optimizer returned the earlier one's tilt
C7_Witness ==
    /\ entry = "optimizer" /\ pc = "done"
    /\ \E i, j \in DOMAIN trial_energies :
           /\ i < j
           /\ trial_energies[i] = result[2] /\ trial_energies[j] = result[2]
           /\ trial_axis_tilts[i] # trial_axis_tilts[j]
           /\ result[1] = trial_axis_tilts[i]
           /\ \E k \in DOMAIN trial_energies : trial_energies[k] # result[2]

\* the optimizer's state and, while it runs, the step it stands at
Phase ==
    IF pc \in { "start", "opt_layout", "opt_study" } THEN "NotStarted"
    ELSE IF pc \in { "propose", "evaluate", "opt_loop", "record" } THEN "Running"
    ELSE IF pc \in { "report", "done" } THEN "Converged"
    ELSE "Failed"

Completed == { i \in DOMAIN study.trials : study.trials[i].state = "COMPLETE" }

\* C8 (optimizer state machine): the optimizer goes NotStarted -> Running ->
\* Converged, leaving NotStarted otherwise only when the layout summary raises;
\* while Running a tilt is proposed, then evaluated, then recorded, and
\* only then is the next one proposed, so at most one trial, the last, is
\* unfinished; Converged is entered from Record only, with exactly 20 recorded
\* trials, never fewer and never more; after Converged no trial is added; and
\* every run in which no evaluation fails reaches Converged.
C8_StateMachine ==
    /\ [][ entry = "optimizer" =>
             /\ Phase = "NotStarted" =>
                    \/ Phase' = "NotStarted"
                    \/ pc' = "propose"
                    \/ pc = "opt_layout" /\ pc' = "raised"
                           /\ error' \in { "TypeError", "ZeroDivisionError" }
             /\ pc = "propose" => pc' = "evaluate"
             /\ pc = "evaluate" => pc' = "opt_loop"
             /\ pc = "opt_loop" => pc' \in { "opt_loop", "record", "raised" }
             /\ pc = "record" => pc' \in { "propose", "report" }
             /\ pc = "report" => pc' = "done"
             /\ pc \in { "done", "raised" } => FALSE
             /\ Phase = "Converged" =>
                    /\ study'.trials = study.trials
                    /\ trial_axis_tilts' = trial_axis_tilts
             /\ Len(study'.trials) <= Len(study.trials) + 1
             /\ Len(study'.trials) > Len(study.trials) => pc = "propose" ]_vars
    /\ [] ( entry = "optimizer" =>
              /\ Len(study.trials) <= 20 /\ Len(trial_axis_tilts) <= 20
              /\ \A i \in DOMAIN study.trials :
                     i < Len(study.trials) => study.trials[i].state = "COMPLETE"
              /\ Len(trial_axis_tilts) = Cardinality(Completed)
              /\ Phase = "Converged" =>
                     Len(trial_axis_tilts) = 20 /\ Cardinality(Completed) = 20
              /\ Phase = "Running" => Len(trial_axis_tilts) < 20 )
    /\ (entry = "optimizer") ~> (Phase = "Converged" \/ Phase = "Failed")

\* C8 witness: the optimizer is Converged, 20 trials recorded
C8_Witness ==
    /\ entry = "optimizer" /\ pc = "done"
    /\ Len(trial_axis_tilts) = 20 /\ Len(study.trials) = 20

\* C9 (failed trial): a trial during whose evaluation the physics failed (a
\* day-level simulation was started and not counted) is marked failed in the
\* study with no value, is not the study's best trial, has no entry in the trial
\* lists, and nothing is returned; the trial lists hold exactly the completed
\* trials with their own tilts and energies.
C9_FailedTrial ==
    entry = "optimizer" =>
        /\ (n_sim > 0 /\ n_sim # count) =>
               LET n == Len(study.trials)
               IN  /\ pc = "raised" /\ error = "PhysicsError"
                   /\ study.trials[n].state = "FAIL"
                   /\ study.trials[n].value = Empty
                   /\ study.best # n
                   /\ Len(trial_axis_tilts) = n - 1
                   /\ Len(trial_energies) = n - 1
                   /\ result = Empty
        /\ \A i \in DOMAIN study.trials :
               study.trials[i].state # "COMPLETE" =>
                   study.trials[i].value = Empty /\ study.best # i
        /\ Len(trial_axis_tilts) = Len(trial_energies)
        /\ \A i \in DOMAIN trial_axis_tilts :
               /\ study.trials[i].state = "COMPLETE"
               /\ study.trials[i].axis_tilt = trial_axis_tilts[i]
               /\ study.trials[i].value = trial_energies[i]

\* C9 witness: the physics failed in the middle of the year while a later trial
\* was evaluated
C9_Witness ==
    /\ entry = "optimizer" /\ pc = "raised" /\ error = "PhysicsError"
    /\ Len(trial_axis_tilts) >= 2 /\ count >= 5
    /\ study.trials[Len(study.trials)].state = "FAIL"

\* C10 (per-day failure aborts the annual estimate): once a day-level simulation
\* of the estimator has failed (it was started and not counted), the estimator has
\* raised the physics error, has returned nothing, the failed day is the last one
\* simulated, and no further step is taken: no later day, no retry, no result.
C10_DayFailureAborts ==
    /\ [] ( (entry = "estimator" /\ n_sim > 0 /\ n_sim # count) =>
              /\ pc = "raised" /\ error = "PhysicsError"
              /\ result = Empty
              /\ n_sim = count + 1
              /\ Len(visited) = n_sim )
    /\ [] ( (entry = "estimator" /\ error = "PhysicsError") => n_sim # count )
    /\ [][ ~ (entry = "estimator" /\ pc = "raised") ]_vars

\* C10 witness: the estimator failed on a later day, a partial sum at hand
C10_Witness ==
    /\ entry = "estimator" /\ pc = "raised" /\ error = "PhysicsError"
    /\ count >= 5 /\ total_energy_bi # Rat(0, 1)
    /\ result = Empty

\* no tracker row of the export has a module count
NoModules ==
    \A id \in TrackerRowIds(pvtune) : NumberOfModules(abs_diff_n(pvtune, id)) = Unset

\* C11 (malformed layout is fatal): when no tracker row of the layout has a module
\* count (the total is zero), the optimizer gets no further than the layout
\* summary: that step raises (the division by zero, or the comparison of a
\* missing span when no row has a pair of array-end lines), the error reaches the
\* caller, no study is created, no trial proposed, no day simulated and nothing
\* returned; and every day-level simulation of the optimizer is made with a
\* defined weighted average, that of a layout with modules.
C11_MalformedLayoutFatal ==
    /\ [] ( (entry = "optimizer" /\ NoModules) =>
              /\ pc \in { "start", "opt_layout", "raised" }
              /\ pc = "raised" => error \in { "TypeError", "ZeroDivisionError" }
              /\ summary_df = Empty /\ weighted_avg_reveal_height = NoHeight
              /\ adjusted_heights_df = Empty
              /\ study = NoStudy
              /\ trial_axis_tilts = Empty /\ trial_energies = Empty
              /\ n_sim = 0 /\ last_call = NoCall
              /\ result = Empty )
    /\ [][ (entry = "optimizer" /\ NoModules /\ pc = "opt_layout") =>
              pc' = "raised" /\ error' \in { "TypeError", "ZeroDivisionError" } ]_vars
    /\ [] ( (entry = "optimizer" /\ (n_sim > 0 \/ study # NoStudy)) =>
              /\ ~ NoModules
              /\ weighted_avg_reveal_height # NoHeight
              /\ weighted_avg_reveal_height[2] > 0 )
    /\ [] ( (entry = "optimizer" /\ error \in { "TypeError", "ZeroDivisionError" })
              => NoModules )

\* C11 witness: the optimizer raised the division by zero on an export whose spans
\* are all out of range, the albedo profile loaded and no study created
C11_Witness ==
    /\ entry = "optimizer" /\ pvtune = SurveyOffRange
    /\ pc = "raised" /\ error = "ZeroDivisionError"
    /\ albedo_data # Empty /\ study = NoStudy /\ n_sim = 0

\* the array-end lines of tracker row id, in file order
EndsOfRow(id) ==
    LET IsEndOfRow(l) ==
            /\ l.row = id
            /\ l.Description = "Ext_Array_END" \/ l.Description = "Int_Array_END"
    IN  SelectSeq(pvtune, IsEndOfRow)

\* the module count the layout rule gives tracker row id, 0 for an excluded row
ModulesOfRow(id) ==
    LET e == EndsOfRow(id)
        span == IF e[1].N < e[2].N THEN e[2].N - e[1].N ELSE e[1].N - e[2].N
    IN  IF Len(e) < 2 THEN 0
        ELSE IF span \in 251..269 THEN 78
        ELSE IF span \in 381..399 THEN 104
        ELSE 0

\* the rounded maximum reveal height of tracker row id: 0.75 above the least
\* quarter that no Reveal Height of the row exceeds
HeightOfRow(id) ==
    LET reveals == { pvtune[i].Reveal_Height : i \in { j \in DOMAIN pvtune :
                                                          pvtune[j].row = id } }
        quarter == CHOOSE q \in 0..40 :
                       /\ \A r \in reveals : r <= 250 * q
                       /\ \E r \in reveals : r > 250 * (q - 1)
    IN  750 + 250 * quarter

\* the summary of the spec's worked example: heights 10 and 12, 100 and 50 modules
SyntheticSummary ==
    [ k \in { 1, 2 } |->
        [ Max_Reveal_Height |-> IF k = 1 THEN 10 ELSE 12,
          Description |-> "Int",
          Number_of_Rows |-> 1,
          Number_of_Total_Modules |-> IF k = 1 THEN 100 ELSE 50 ] ]

\* C12 (weighted-average reveal height): when the layout summary returns, the
\* returned height is sum(height_r * modules_r) / sum(modules_r) over the tracker
\* rows r, height_r the row's rounded maximum reveal height and modules_r 78 for a
\* span strictly between 250 and 270, 104 strictly between 380 and 400, and 0 (the
\* row is excluded) for any other span, the boundary spans included, and for a
\* row with fewer than two array-end lines; the summary's module totals add up to
\* sum(modules_r); it raises only when that sum is 0; and the summary of heights
\* 10 and 12 with 100 and 50 modules gives 1600/150.
C12_WeightedAverage ==
    LET ids == { pvtune[i].row : i \in DOMAIN pvtune }
        modules == SumOver([ id \in ids |-> ModulesOfRow(id) ], ids)
        weighted == SumOver([ id \in ids |-> HeightOfRow(id) * ModulesOfRow(id) ], ids)
    IN  /\ (entry = "layout" /\ pc = "done") =>
               /\ modules > 0
               /\ result[2] = Rat(weighted, modules)
               /\ RatMul(result[2], Rat(modules, 1)) = Rat(weighted, 1)
               /\ SumOver([ k \in DOMAIN result[1] |->
                               result[1][k].Number_of_Total_Modules ],
                          DOMAIN result[1]) = modules
        /\ (entry = "layout" /\ pc = "raised") => modules = 0 /\ result = Empty
        /\ weighted_average(with_weighted_height(SyntheticSummary)) = Rat(1600, 150)

\* C12 witness: an export of a 78-module row of height 2.0 and a 104-module row
\* of height 2.25: the layout summary returned 390/182 = 15/7 (thousandths: 15000/7)
C12_Witness ==
    /\ entry = "layout" /\ pc = "done"
    /\ result[2] = << 15000, 7 >>
    /\ \E i, j \in DOMAIN pvtune :
           /\ pvtune[i].row # pvtune[j].row
           /\ ModulesOfRow(pvtune[i].row) = 78
           /\ ModulesOfRow(pvtune[j].row) = 104

\* The standalone estimator as a function of its arguments, the profiles, the
\* timezone and the physics being those of the state: the pvfactors arguments of
\* its k-th day, the AC power summed over its days lo..hi, and its return value.
EstimatorDays == (364 - 0) \div 10 + 1

EstimatorCall(h, cls, k) ==
    Only({ IrradianceCall(data, df, h, ArrayRows(cls), tz, 10 * (k - 1)) :
               data \in { calculate_monthly_avg_albedo(albedo_files) },
               df \in { calculate_new_row_height(snow_src, h) } })

RECURSIVE EstimatorRange(_, _, _, _, _)
EstimatorRange(h, cls, tilt, lo, hi) ==
    IF lo > hi THEN 0
    ELSE IF lo = hi THEN AcPowerSum(physics, tilt, EstimatorCall(h, cls, lo))
    ELSE EstimatorRange(h, cls, tilt, lo, (lo + hi) \div 2)
           + EstimatorRange(h, cls, tilt, (lo + hi) \div 2 + 1, hi)

EstimatorValue(h, cls, tilt) ==
    RatMul(Rat(EstimatorRange(h, cls, tilt, 1, EstimatorDays), 3000),
           Rat(365, EstimatorDays))

\* C13 (estimator/optimizer agreement): the estimator's own run makes the calls
\* and returns the value of the estimator function of its arguments; and the
\* optimizer's objective, evaluated for a tilt, makes day by day (the latest
\* call being the previous day's when a day fails before its call) the pvfactors
\* call (timestamps, albedo values, row height, row count) of the estimator
\* function called with that tilt, class Int and the layout's weighted-average
\* height, and returns the same value; so every recorded trial energy, and the
\* returned maximized energy at the returned tilt, is the estimator function's
\* value.
C13_Agreement ==
    /\ (entry = "estimator" /\ last_call # NoCall) =>
           \/ last_call = EstimatorCall(height, ext_or_int, Len(visited))
           \/ /\ pc = "raised" /\ count > 0
              /\ last_call = EstimatorCall(height, ext_or_int, count)
    /\ (entry = "estimator" /\ pc = "done") =>
           result = EstimatorValue(height, ext_or_int, opt_tilt)
    /\ (entry = "optimizer" /\ last_call # NoCall
            /\ pc \in { "opt_loop", "record", "raised" }) =>
           \/ last_call = EstimatorCall(weighted_avg_reveal_height, "Int",
                                        Len(visited))
           \/ /\ pc = "raised" /\ count > 0
              /\ last_call = EstimatorCall(weighted_avg_reveal_height, "Int", count)
    /\ (entry = "optimizer" /\ pc = "record") =>
           /\ count = EstimatorDays
           /\ total_energy
                  = EstimatorValue(weighted_avg_reveal_height, "Int", axis_tilt)
    /\ (entry = "optimizer" /\ pc = "done") =>
           /\ \A i \in DOMAIN trial_energies :
                  trial_energies[i]
                      = EstimatorValue(weighted_avg_reveal_height, "Int",
                                       trial_axis_tilts[i])
           /\ result[2] = EstimatorValue(weighted_avg_reveal_height, "Int", result[1])

\* C13 witness: the optimizer returned, for a site with months missing from both
\* profiles and the tilt-dependent physics, the energy the estimator function
\* gives at the returned tilt, other tilts giving other energies
C13_Witness ==
    /\ entry = "optimizer" /\ pc = "done"
    /\ physics = "geometry" /\ albedo_files = TwoYearFolder /\ snow_src = WinterSnow
    /\ result[2] = EstimatorValue(weighted_avg_reveal_height, "Int", result[1])
    /\ \E i \in DOMAIN trial_energies : trial_energies[i] # result[2]

====
